---- MODULE Spec2Model ----
(***************************************************************************)
(* Model of NumbersServer (src/server.py): an asyncio TCP server that      *)
(* frames each connection's byte stream into 10-byte strides, applies the  *)
(* 9-digit numbers to a shared index under bst_lock and the report_event   *)
(* gate, and periodically prints a report line and flushes the buffered    *)
(* first occurrences to the log file.                                      *)
(*                                                                         *)
(* Bytes are their integer values (ASCII codes); bytes objects and str     *)
(* objects are sequences of them.  Python's 0-based byte_array[i] is       *)
(* ba[i+1] here.  Every await of the code is a point where another task    *)
(* may run, so each action is the code between two awaits.                 *)
(***************************************************************************)
EXTENDS Integers, Sequences, FiniteSets, TLC

\* ------------------------------------------------------------------ bounds

\* max_connections_ of the server under check (constructor argument).
MaxConnections == 2
\* sendall calls of all clients together.
MaxSends == 2
\* Fires of the periodic timer.
MaxReports == 2

\* ------------------------------------------------------- program constants

READ_LIMIT == 65536
STRIDE == 10
LF == 10
ASCII_0 == 48
ASCII_9 == 57

\* b'terminate\n'
TERMINATE == <<116, 101, 114, 109, 105, 110, 97, 116, 101, 10>>

\* One client socket more than the server admits.
Sockets == 1 .. (MaxConnections + 1)

\* ------------------------------------------------------------ client side

RECURSIVE Pow10(_)
Pow10(e) == IF e = 0 THEN 1 ELSE 10 * Pow10(e - 1)

\* str(n).zfill(9) + "\n", encoded: nine ASCII digits and LF.
EncodeNumber(n) ==
    [i \in 1 .. 10 |-> IF i = 10 THEN LF
                       ELSE ASCII_0 + ((n \div Pow10(9 - i)) % 10)]

\* '12345678\n' : nine bytes, the LF at position 8.
SHORT9 == <<49, 50, 51, 52, 53, 54, 55, 56, 10>>
\* '1234b6789\n'
BADDIGIT == <<49, 50, 51, 52, 98, 54, 55, 56, 57, 10>>

\* '000000001\n000000001\n000000002\n'
THREE_RECORDS == EncodeNumber(1) \o EncodeNumber(1) \o EncodeNumber(2)

\* What a client may pass to one sendall().
ClientMessages ==
    {EncodeNumber(1), EncodeNumber(2), THREE_RECORDS, TERMINATE, SHORT9,
     BADDIGIT}

\* ------------------------------------------------------------------ framer

\* Off by one: <= in place of < at line 158.
IsDigit_OffByOne(b) == ~(b <= ASCII_0 \/ b > ASCII_9)

\* Line 158, negated: the byte is an ASCII digit.
IsDigit(b) == ~(b < ASCII_0 \/ b > ASCII_9)

\* The verdict of lines 150-162 on one complete 10-byte stride.
FrameVerdict(byte_array) ==
    IF byte_array[10] # LF THEN "close"
    ELSE IF \E index \in 1 .. 9 : ~IsDigit(byte_array[index])
         THEN IF byte_array = TERMINATE THEN "terminate" ELSE "close"
         ELSE "number"

\* str.strip(): drops leading and trailing whitespace characters.
IsSpace(ch) == ch \in {9, 10, 11, 12, 13, 32}

RECURSIVE LStrip(_)
LStrip(str) ==
    IF str # <<>> /\ IsSpace(Head(str)) THEN LStrip(Tail(str)) ELSE str

RECURSIVE RStrip(_)
RStrip(str) ==
    IF str # <<>> /\ IsSpace(str[Len(str)])
    THEN RStrip(SubSeq(str, 1, Len(str) - 1))
    ELSE str

\* byte_array.decode('utf8').strip(); the bytes are ASCII where it is called.
NumberStr(byte_array) == RStrip(LStrip(byte_array))

\* int(number_str) on a string of decimal digits: value[i] is the value of the
\* first i digits.
ParseInt(str) ==
    LET value[i \in 0 .. Len(str)] ==
            IF i = 0 THEN 0 ELSE 10 * value[i - 1] + (str[i] - ASCII_0)
    IN value[Len(str)]

\* buf[offset:offset+10]
Slice(buf, offset) ==
    SubSeq(buf, offset + 1, IF offset + STRIDE > Len(buf) THEN Len(buf)
                            ELSE offset + STRIDE)

\* buf[:length] in place of buf[-length:]: the head of the buffer kept.
Carry_FirstBytes(buf, length) == SubSeq(buf, 1, length)

\* The incomplete stride dropped instead of kept.
Carry_Dropped(buf, length) == <<>>

\* Line 145: remaining_buf = buf[-length:], for 0 < length <= len(buf).
Carry(buf, length) == SubSeq(buf, Len(buf) - length + 1, Len(buf))

\* ------------------------------------------------------------------- state

VARIABLES
    run_pc,          \* run(): "start", "initial_report", "serve", "failed"
    server,          \* self.server: "none", "listening", "closed"
    timer,           \* self.timer: "none", "sleep", "report", "failed" (the
                     \* task ended with an exception), "cancelled" (cancel()
                     \* has been called)
    loop,            \* the event loop: "running", "stopped"
    fires,           \* number of timer fires so far
    report_event,    \* self.report_event.is_set()
    current_report,  \* self.current_report, <<U, D, T>>
    bst,             \* self.bst: number -> already duplicated
    bst_lock,        \* self.bst_lock.locked()
    logfile_buffer,  \* self.logfile_buffer: sequence of number_str
    logfile,         \* bytes written to the log file
    stdout,          \* printed report lines, <<U, D, T>> each
    connections,     \* keys of self.connections
    connections_count,
    sock,            \* server side of a socket: "unused", "open", "rejected", "closed"
    peer,            \* client side: "open", "closed", "reset"
    wire,            \* bytes sent and not yet returned by reader.read
    sent,            \* history: all bytes the client sent
    pc,              \* worker position
    remaining_buf,   \* consume_stream local (None is <<>>)
    buf,             \* consume_stream local
    offset,          \* consume_stream local: loop variable of line 134
    nsends,          \* number of sendall calls so far
    applied,         \* history: <<socket, number>> of each record application
    printed_at,      \* history: Len(applied) at each printed line
    fr_stream,       \* framer alone: the bytes the peer sends
    fr_in,           \* framer alone: bytes of the stream not yet read
    fr_w,            \* framer alone: the worker fed with the stream
    fr_split         \* framer alone: history, some read ended inside a stride

vars == <<run_pc, server, timer, loop, fires, report_event, current_report,
          bst, bst_lock, logfile_buffer, logfile, stdout, connections,
          connections_count, sock, peer, wire, sent, pc, remaining_buf, buf,
          offset, nsends, applied, printed_at, fr_stream, fr_in, fr_w,
          fr_split>>

runVars == <<run_pc, server, timer, loop, fires>>
reportVars == <<report_event, stdout, logfile, printed_at>>
indexVars == <<current_report, bst, logfile_buffer, applied>>
tableVars == <<connections, connections_count>>
clientVars == <<peer, sent, nsends>>
localVars == <<remaining_buf, buf, offset>>
framerVars == <<fr_stream, fr_in, fr_w, fr_split>>
serverVars == <<run_pc, server, timer, loop, fires, report_event,
                current_report, bst, bst_lock, logfile_buffer, logfile, stdout,
                connections, connections_count, sock, peer, wire, sent, pc,
                remaining_buf, buf, offset, nsends, applied, printed_at>>

\* The shared state of a fresh server, and a worker that has read nothing.
EmptyShared == [bst |-> <<>>, current_report |-> <<0, 0, 0>>,
                logfile_buffer |-> <<>>, applied |-> <<>>]
FreshWorker == [at |-> "read", offset |-> 0, remaining_buf |-> <<>>,
                shared |-> EmptyShared]

\* __init__, lines 23-41.
InitServer ==
    /\ run_pc = "start"
    /\ server = "none"
    /\ timer = "none"
    /\ loop = "running"
    /\ fires = 0
    /\ report_event = FALSE
    /\ current_report = <<0, 0, 0>>
    /\ bst = <<>>
    /\ bst_lock = FALSE
    /\ logfile_buffer = <<>>
    /\ logfile = <<>>
    /\ stdout = <<>>
    /\ connections = {}
    /\ connections_count = 0
    /\ sock = [s \in Sockets |-> "unused"]
    /\ peer = [s \in Sockets |-> "open"]
    /\ wire = [s \in Sockets |-> <<>>]
    /\ sent = [s \in Sockets |-> <<>>]
    /\ pc = [s \in Sockets |-> "none"]
    /\ remaining_buf = [s \in Sockets |-> <<>>]
    /\ buf = [s \in Sockets |-> <<>>]
    /\ offset = [s \in Sockets |-> 0]
    /\ nsends = 0
    /\ applied = <<>>
    /\ printed_at = <<>>

Init ==
    /\ InitServer
    /\ fr_stream = <<>>
    /\ fr_in = <<>>
    /\ fr_w = FreshWorker
    /\ fr_split = FALSE

\* ---------------------------------------------------------------- reporter

\* '\n'.join(strs)
RECURSIVE Join(_)
Join(strs) ==
    IF strs = <<>> THEN <<>>
    ELSE IF Len(strs) = 1 THEN strs[1]
    ELSE strs[1] \o <<LF>> \o Join(Tail(strs))

\* What logfile.write appends to the file, line 81.
FlushedText(buffer) == Join(buffer)

\* The total reset with the period counters.
ResetPeriod_All(report) == <<0, 0, 0>>

\* The counters after lines 77-78.
ResetPeriod(report) == <<0, 0, report[3]>>

\* The counters reset before the line is printed.
ReportBegin_ResetFirst ==
    /\ report_event' = FALSE
    /\ stdout' = Append(stdout, ResetPeriod(current_report))
    /\ printed_at' = Append(printed_at, Len(applied))
    /\ current_report' = ResetPeriod(current_report)

\* generate_report up to the await of logfile.write, lines 70-81.
ReportBegin ==
    /\ report_event' = FALSE
    /\ stdout' = Append(stdout, current_report)
    /\ printed_at' = Append(printed_at, Len(applied))
    /\ current_report' = ResetPeriod(current_report)

\* report_event.set() of line 86 left out.
ReportEnd_NoSet ==
    /\ logfile' = logfile \o FlushedText(logfile_buffer)
    /\ logfile_buffer' = <<>>
    /\ report_event' = report_event

\* generate_report once logfile.write has returned, lines 81-86.
ReportEnd ==
    /\ logfile' = logfile \o FlushedText(logfile_buffer)
    /\ logfile_buffer' = <<>>
    /\ report_event' = TRUE

\* run(), lines 46-53: open the log, start the server, begin the first report.
RunStart ==
    /\ loop = "running"
    /\ run_pc = "start"
    /\ run_pc' = "initial_report"
    /\ server' = "listening"
    /\ ReportBegin
    /\ UNCHANGED <<framerVars, timer, loop, fires, bst, bst_lock, logfile_buffer, logfile,
                   applied, tableVars, sock, wire, pc, clientVars, localVars>>

\* run(), lines 53-61: the first report completes, the timer task is created.
InitialReportDone ==
    /\ loop = "running"
    /\ run_pc = "initial_report"
    /\ ReportEnd
    /\ run_pc' = "serve"
    /\ timer' = "sleep"
    /\ UNCHANGED <<framerVars, server, loop, fires, stdout, printed_at, current_report, bst,
                   bst_lock, applied, tableVars, sock, wire, pc, clientVars,
                   localVars>>

\* timer_runner, lines 64-66: the sleep ends and the report begins.
TimerFire ==
    /\ loop = "running"
    /\ timer = "sleep"
    /\ fires < MaxReports
    /\ fires' = fires + 1
    /\ timer' = "report"
    /\ ReportBegin
    /\ UNCHANGED <<framerVars, run_pc, server, loop, bst, bst_lock, logfile_buffer, logfile,
                   applied, tableVars, sock, wire, pc, clientVars, localVars>>

\* timer_runner, line 66: the report completes, back to the sleep.
TimerReportDone ==
    /\ loop = "running"
    /\ timer = "report"
    /\ ReportEnd
    /\ timer' = "sleep"
    /\ UNCHANGED <<framerVars, run_pc, server, loop, fires, stdout, printed_at,
                   current_report, bst, bst_lock, applied, tableVars, sock,
                   wire, pc, clientVars, localVars>>

\* run(), line 53: logfile.write raises inside the first report.  The exception
\* leaves run(), run_until_complete re-raises it, the bare except of line 262
\* swallows it and the program ends.
InitialWriteFails ==
    /\ loop = "running"
    /\ run_pc = "initial_report"
    /\ run_pc' = "failed"
    /\ loop' = "stopped"
    /\ UNCHANGED <<framerVars, server, timer, fires, reportVars, indexVars,
                   bst_lock, tableVars, sock, wire, pc, clientVars, localVars>>

\* timer_runner, line 66: logfile.write raises inside a periodic report.  The
\* exception ends the timer task, which nobody awaits; lines 84-86 are not run
\* and run() goes on serving.
TimerWriteFails ==
    /\ loop = "running"
    /\ timer = "report"
    /\ timer' = "failed"
    /\ UNCHANGED <<framerVars, run_pc, server, loop, fires, reportVars, indexVars,
                   bst_lock, tableVars, sock, wire, pc, clientVars, localVars>>

\* ----------------------------------------------------------------- clients

\* A client's sendall of one message on a socket the server has not closed.
Send(s, m) ==
    /\ loop = "running"
    /\ sock[s] = "open"
    /\ peer[s] = "open"
    /\ nsends < MaxSends
    /\ nsends' = nsends + 1
    /\ wire' = [wire EXCEPT ![s] = @ \o m]
    /\ sent' = [sent EXCEPT ![s] = @ \o m]
    /\ UNCHANGED <<framerVars, runVars, reportVars, indexVars, bst_lock, tableVars, sock,
                   peer, pc, localVars>>

\* The client closes its socket.
PeerClose(s) ==
    /\ loop = "running"
    /\ sock[s] = "open"
    /\ peer[s] = "open"
    /\ peer' = [peer EXCEPT ![s] = "closed"]
    /\ UNCHANGED <<framerVars, runVars, reportVars, indexVars, bst_lock, tableVars, sock,
                   wire, sent, nsends, pc, localVars>>

\* ---------------------------------------------------------------- admission

\* Off by one: the cap compared with > instead of >=.
AtCapacity_OffByOne == connections_count > MaxConnections

\* Line 233.
AtCapacity == connections_count >= MaxConnections

\* The return of line 235 forgotten: the socket is closed and registered all the
\* same.
Arrive_NoReturn(s) ==
    /\ loop = "running"
    /\ server = "listening"
    /\ sock[s] = "unused"
    /\ \A x \in Sockets : x < s => sock[x] # "unused"
    /\ connections_count' = connections_count + 1
    /\ connections' = connections \cup {s}
    /\ sock' = [sock EXCEPT ![s] = IF AtCapacity THEN "closed" ELSE "open"]
    /\ pc' = [pc EXCEPT ![s] = "read"]
    /\ UNCHANGED <<framerVars, runVars, reportVars, indexVars, bst_lock, wire,
                   clientVars, localVars>>

\* connection_handler up to the await of consume_task, lines 233-243.  Sockets
\* are numbered in the order in which their handlers run.
Arrive(s) ==
    /\ loop = "running"
    /\ server = "listening"
    /\ sock[s] = "unused"
    /\ \A x \in Sockets : x < s => sock[x] # "unused"
    /\ IF AtCapacity
       THEN /\ sock' = [sock EXCEPT ![s] = "rejected"]
            /\ UNCHANGED <<tableVars, pc>>
       ELSE /\ connections_count' = connections_count + 1
            /\ connections' = connections \cup {s}
            /\ sock' = [sock EXCEPT ![s] = "open"]
            /\ pc' = [pc EXCEPT ![s] = "read"]
    /\ UNCHANGED <<framerVars, runVars, reportVars, indexVars, bst_lock, wire, clientVars,
                   localVars>>

\* ------------------------------------------------------------------ worker

Min(a, b) == IF a < b THEN a ELSE b

\* bst.get_value(number), line 193: the flag, or KeyError.
GetValue(index, number) ==
    IF number \in DOMAIN index
    THEN (IF index[number] THEN "duplicated" ELSE "once")
    ELSE "KeyError"

\* The flag flipped on every repeat instead of set.
BstAfter_Toggle(index, number) ==
    CASE GetValue(index, number) = "KeyError" ->
             [k \in DOMAIN index \cup {number} |->
                 IF k = number THEN FALSE ELSE index[k]]
      [] OTHER -> [index EXCEPT ![number] = ~@]

\* self.bst after lines 193-214.
BstAfter(index, number) ==
    CASE GetValue(index, number) = "KeyError" ->
             [k \in DOMAIN index \cup {number} |->
                 IF k = number THEN FALSE ELSE index[k]]
      [] GetValue(index, number) = "once" -> [index EXCEPT ![number] = TRUE]
      [] OTHER -> index

\* The decrement of line 202 left out.
ReportAfter_NoDecrement(report, index, number) ==
    CASE GetValue(index, number) = "KeyError" ->
             <<report[1] + 1, report[2], report[3] + 1>>
      [] OTHER -> <<report[1], report[2] + 1, report[3]>>

\* Line 206 moved inside the if of line 200: only the first repeat counts.
ReportAfter_FirstRepeatOnly(report, index, number) ==
    CASE GetValue(index, number) = "KeyError" ->
             <<report[1] + 1, report[2], report[3] + 1>>
      [] GetValue(index, number) = "once" ->
             <<report[1], report[2] + 1, report[3] - 1>>
      [] OTHER -> report

\* self.current_report after lines 193-224.
ReportAfter(report, index, number) ==
    CASE GetValue(index, number) = "KeyError" ->
             <<report[1] + 1, report[2], report[3] + 1>>
      [] GetValue(index, number) = "once" ->
             <<report[1], report[2] + 1, report[3] - 1>>
      [] OTHER -> <<report[1], report[2] + 1, report[3]>>

\* Line 221 moved out of the except branch: every application is buffered.
BufferAfter_EveryTime(buffer, index, number, number_str) ==
    Append(buffer, number_str)

\* self.logfile_buffer after line 221.
BufferAfter(buffer, index, number, number_str) ==
    IF GetValue(index, number) = "KeyError"
    THEN Append(buffer, number_str)
    ELSE buffer

\* The shared state a record application works on.
Shared == [bst |-> bst, current_report |-> current_report,
           logfile_buffer |-> logfile_buffer, applied |-> applied]

\* Lines 169-174 and 189-224: the stride byte_array of worker s, applied.
ApplyRecord(s, byte_array, sh) ==
    LET Applied(number_str, number) ==
            [bst |-> BstAfter(sh.bst, number),
             current_report |-> ReportAfter(sh.current_report, sh.bst, number),
             logfile_buffer |->
                 BufferAfter(sh.logfile_buffer, sh.bst, number, number_str),
             applied |-> Append(sh.applied, <<s, number>>)]
    IN CHOOSE after \in {Applied(number_str, ParseInt(number_str)) :
                            number_str \in {NumberStr(byte_array)}} : TRUE

\* The for loop of lines 134-228 from offset o of buffer b, run until the worker
\* returns or suspends.  pass: bst_lock.acquire() and the gate check of lines
\* 179-187 do not suspend.  at is "read" (back at reader.read), "close",
\* "terminate", or "number" (suspended in front of the record at offset).  The
\* shared state after a record is a value computed once (after), on which the
\* next iteration works.
RECURSIVE ForLoop(_, _, _, _, _)
ForLoop(s, b, o, sh, pass) ==
    IF o >= Len(b)
    THEN [at |-> "read", offset |-> 0, remaining_buf |-> <<>>, shared |-> sh]
    ELSE LET byte_array == Slice(b, o)
             length == Len(byte_array)
         IN IF length < STRIDE
            THEN [at |-> "read", offset |-> 0,
                  remaining_buf |-> Carry(b, length), shared |-> sh]
            ELSE IF FrameVerdict(byte_array) # "number"
            THEN [at |-> FrameVerdict(byte_array), offset |-> 0,
                  remaining_buf |-> <<>>, shared |-> sh]
            ELSE IF pass
            THEN CHOOSE r \in {ForLoop(s, b, o + STRIDE, after, pass) :
                                  after \in {ApplyRecord(s, byte_array, sh)}} :
                     TRUE
            ELSE [at |-> "number", offset |-> o, remaining_buf |-> <<>>,
                  shared |-> sh]

\* acquire() returning at once whatever the state of the lock.
LockFree_Ignored(s) == TRUE

\* asyncio.Lock.acquire returns at once iff the lock is free and no other task
\* is queued on it.
LockFree(s) == ~bst_lock /\ \A x \in Sockets \ {s} : pc[x] # "acquire"

\* The gate check of lines 186-187 left out: a free lock is enough to apply.
Advance_NoGate(s, b, o, sh, lock_free, locked_after) ==
    \E r \in {ForLoop(s, b, o, sh, lock_free)} :
        LET suspended == r.at = "number"
        IN /\ pc' = [pc EXCEPT ![s] = IF ~suspended THEN r.at ELSE "acquire"]
           /\ bst_lock' = locked_after
           /\ buf' = [buf EXCEPT ![s] = IF suspended THEN b ELSE <<>>]
           /\ offset' = [offset EXCEPT ![s] = r.offset]
           /\ remaining_buf' = [remaining_buf EXCEPT ![s] = r.remaining_buf]
           /\ bst' = r.shared.bst
           /\ current_report' = r.shared.current_report
           /\ logfile_buffer' = r.shared.logfile_buffer
           /\ applied' = r.shared.applied

\* The worker's state after the for loop ran from offset o of buffer b.  A worker
\* stopped in front of a record either queues on the lock ("acquire") or takes
\* the free lock and waits for the gate ("gate").
Advance(s, b, o, sh, lock_free, locked_after) ==
    \E r \in {ForLoop(s, b, o, sh, lock_free /\ report_event)} :
        LET suspended == r.at = "number"
        IN /\ pc' = [pc EXCEPT ![s] =
                        IF ~suspended THEN r.at
                        ELSE IF lock_free THEN "gate" ELSE "acquire"]
           /\ bst_lock' = IF suspended /\ lock_free THEN TRUE ELSE locked_after
           /\ buf' = [buf EXCEPT ![s] = IF suspended THEN b ELSE <<>>]
           /\ offset' = [offset EXCEPT ![s] = r.offset]
           /\ remaining_buf' = [remaining_buf EXCEPT ![s] = r.remaining_buf]
           /\ bst' = r.shared.bst
           /\ current_report' = r.shared.current_report
           /\ logfile_buffer' = r.shared.logfile_buffer
           /\ applied' = r.shared.applied

\* consume_stream, lines 118-127 and the for loop: read(65536) returns the bytes
\* that have arrived, at most 65536 of them.  A read ends where a sendall ended.
Read(s) ==
    /\ loop = "running"
    /\ pc[s] = "read"
    /\ wire[s] # <<>>
    /\ LET k == Min(READ_LIMIT, Len(wire[s]))
       IN /\ wire' = [wire EXCEPT ![s] = SubSeq(@, k + 1, Len(@))]
          /\ Advance(s, remaining_buf[s] \o SubSeq(wire[s], 1, k), 0, Shared,
                     LockFree(s), bst_lock)
    /\ UNCHANGED <<framerVars, runVars, reportVars, tableVars, sock, clientVars>>

\* consume_stream, lines 118-122: read returns b'' once the peer has closed, or
\* the server itself closed the transport, and nothing is left to read.
ReadEOF(s) ==
    /\ loop = "running"
    /\ pc[s] = "read"
    /\ wire[s] = <<>>
    /\ peer[s] = "closed" \/ sock[s] = "closed"
    /\ pc' = [pc EXCEPT ![s] = "close"]
    /\ UNCHANGED <<framerVars, runVars, reportVars, indexVars, bst_lock, tableVars, sock,
                   wire, clientVars, localVars>>

\* consume_stream, line 118: the peer resets the connection while the worker
\* awaits the read, which raises ConnectionResetError; unread bytes are lost.
ReadReset(s) ==
    /\ loop = "running"
    /\ pc[s] = "read"
    /\ sock[s] = "open"
    /\ peer[s] = "open"
    /\ peer' = [peer EXCEPT ![s] = "reset"]
    /\ pc' = [pc EXCEPT ![s] = "reset"]
    /\ wire' = [wire EXCEPT ![s] = <<>>]
    /\ UNCHANGED <<framerVars, runVars, reportVars, indexVars, bst_lock, tableVars, sock,
                   sent, nsends, localVars>>

\* consume_stream, lines 179-228: a worker queued on the lock gets it.  With the
\* gate open it applies its record, releases and goes on with the for loop; with
\* the gate closed it waits for the gate, holding the lock.
Acquire(s) ==
    /\ loop = "running"
    /\ pc[s] = "acquire"
    /\ ~bst_lock
    /\ IF report_event
       THEN Advance(s, buf[s], offset[s] + STRIDE,
                    ApplyRecord(s, Slice(buf[s], offset[s]), Shared),
                    LockFree(s), FALSE)
       ELSE /\ bst_lock' = TRUE
            /\ pc' = [pc EXCEPT ![s] = "gate"]
            /\ UNCHANGED <<indexVars, localVars>>
    /\ UNCHANGED <<framerVars, runVars, reportVars, tableVars, sock, wire, clientVars>>

\* consume_stream, lines 187-228: report_event.wait() returns; the record is
\* applied, the lock released, and the for loop goes on.
GateOpen(s) ==
    /\ loop = "running"
    /\ pc[s] = "gate"
    /\ report_event
    /\ Advance(s, buf[s], offset[s] + STRIDE,
               ApplyRecord(s, Slice(buf[s], offset[s]), Shared),
               \A x \in Sockets \ {s} : pc[x] # "acquire", FALSE)
    /\ UNCHANGED <<framerVars, runVars, reportVars, tableVars, sock, wire, clientVars>>

\* ------------------------------------------------------- close and shutdown

\* The decrement of line 94 left out.
CloseConnection_NoDecrement(s) ==
    IF s \in connections
    THEN /\ sock' = [sock EXCEPT ![s] = "closed"]
         /\ connections' = connections \ {s}
         /\ connections_count' = connections_count
    ELSE UNCHANGED <<sock, connections, connections_count>>

\* close_connection, lines 90-94.
CloseConnection(s) ==
    IF s \in connections
    THEN /\ sock' = [sock EXCEPT ![s] = "closed"]
         /\ connections' = connections \ {s}
         /\ connections_count' = connections_count - 1
    ELSE UNCHANGED <<sock, connections, connections_count>>

\* connection_handler, lines 243-250: consume_stream returned "close" or raised
\* ConnectionResetError.  The worker is gone: bytes left unread are never read,
\* and the connection is over for the client too.
HandlerClose(s) ==
    /\ loop = "running"
    /\ pc[s] \in {"close", "reset"}
    /\ CloseConnection(s)
    /\ pc' = [pc EXCEPT ![s] = "done"]
    /\ wire' = [wire EXCEPT ![s] = <<>>]
    /\ peer' = [peer EXCEPT ![s] = "closed"]
    /\ UNCHANGED <<framerVars, runVars, reportVars, indexVars, bst_lock, sent, nsends,
                   localVars>>

\* self.timer.cancel() of line 102 raises AttributeError while self.timer is None.
TimerIsNone == timer = "none"

\* shutdown, lines 98-106.
Shutdown ==
    /\ sock' = [x \in Sockets |-> IF x \in connections THEN "closed" ELSE sock[x]]
    /\ connections' = {}
    /\ IF TimerIsNone
       THEN UNCHANGED <<timer, server, loop>>
       ELSE /\ timer' = "cancelled"
            /\ server' = "closed"
            /\ loop' = "stopped"
    /\ UNCHANGED connections_count

\* connection_handler, lines 243-245: consume_stream returned "terminate".
HandlerTerminate(s) ==
    /\ loop = "running"
    /\ pc[s] = "terminate"
    /\ Shutdown
    /\ pc' = [pc EXCEPT ![s] = "terminated"]
    /\ UNCHANGED <<framerVars, run_pc, fires, reportVars, indexVars, bst_lock, wire,
                   clientVars, localVars>>

\* ----------------------------------------------------------- specification

Next ==
    \/ RunStart
    \/ InitialReportDone
    \/ TimerFire
    \/ TimerReportDone
    \/ InitialWriteFails
    \/ TimerWriteFails
    \/ \E s \in Sockets : Arrive(s)
    \/ \E s \in Sockets, m \in ClientMessages : Send(s, m)
    \/ \E s \in Sockets : PeerClose(s)
    \/ \E s \in Sockets : Read(s)
    \/ \E s \in Sockets : ReadEOF(s)
    \/ \E s \in Sockets : ReadReset(s)
    \/ \E s \in Sockets : Acquire(s)
    \/ \E s \in Sockets : GateOpen(s)
    \/ \E s \in Sockets : HandlerClose(s)
    \/ \E s \in Sockets : HandlerTerminate(s)

Spec == Init /\ [][Next]_vars

\* The event loop runs every task that is ready, a sleep ends, and a log write
\* that does not fail returns.  Nothing is assumed of the clients.
Fairness ==
    /\ WF_vars(RunStart)
    /\ WF_vars(InitialReportDone)
    /\ WF_vars(TimerReportDone)
    /\ \A s \in Sockets :
           /\ WF_vars(Read(s))
           /\ WF_vars(ReadEOF(s))
           /\ WF_vars(Acquire(s))
           /\ WF_vars(GateOpen(s))
           /\ WF_vars(HandlerClose(s))
           /\ WF_vars(HandlerTerminate(s))

FairSpec == Spec /\ Fairness

\* ------------------------------------------------------------ framer alone

\* Bytes around the digit range, the terminator and other separators:
\* '/', '0', '9', ':', LF, CR, space, 't'.
FramerBytes == {47, 48, 57, 58, 10, 13, 32, 116}

FramerBases ==
    {EncodeNumber(0), EncodeNumber(999999999), EncodeNumber(123456789),
     TERMINATE}

\* The 10-byte strides fed to the framer: a base with up to two bytes replaced.
FramerStrides ==
    {[k \in 1 .. 10 |-> IF k = i THEN x ELSE IF k = j THEN y ELSE b[k]] :
        b \in FramerBases, i \in 1 .. 10, j \in 1 .. 10,
        x \in FramerBytes, y \in FramerBytes}
    \cup FramerBases

FramerInit ==
    /\ InitServer
    /\ fr_stream \in FramerStrides
    /\ fr_in = fr_stream
    /\ fr_w = FreshWorker
    /\ fr_split = FALSE

\* consume_stream on a connection of its own, with the lock free and the gate
\* open: read returns the next n bytes and the for loop runs over them.
FramerRead(n) ==
    /\ fr_w.at = "read"
    /\ n <= Len(fr_in)
    /\ fr_w' = ForLoop(1, fr_w.remaining_buf \o SubSeq(fr_in, 1, n), 0,
                       fr_w.shared, TRUE)
    /\ fr_in' = SubSeq(fr_in, n + 1, Len(fr_in))
    /\ fr_split' = (fr_split \/ fr_w'.remaining_buf # <<>>)
    /\ UNCHANGED <<serverVars, fr_stream>>

FramerNext == \E n \in 1 .. STRIDE : FramerRead(n)

FramerSpec == FramerInit /\ [][FramerNext]_vars

\* ------------------------------------------------- framer alone, long streams

\* Strides a stream is made of.
MaxPieces == 3

\* What the streams are made of: records, terminate\n, a frame with a bad
\* digit, and a 9-byte line that shifts every stride after it.
ChunkPieces == {EncodeNumber(1), EncodeNumber(2), TERMINATE, BADDIGIT, SHORT9}

RECURSIVE Concats(_)
Concats(n) ==
    IF n = 0 THEN {<<>>}
    ELSE Concats(n - 1) \cup {p \o c : p \in ChunkPieces, c \in Concats(n - 1)}

\* Every non-empty stream that is the beginning of up to MaxPieces pieces.
ChunkStreams ==
    UNION {{SubSeq(c, 1, k) : k \in 1 .. Len(c)} : c \in Concats(MaxPieces)}

ChunkInit ==
    /\ InitServer
    /\ fr_stream \in ChunkStreams
    /\ fr_in = fr_stream
    /\ fr_w = FreshWorker
    /\ fr_split = FALSE

\* consume_stream, lines 118-122: the peer has closed and everything it sent has
\* been read; read returns b''.
FramerEOF ==
    /\ fr_w.at = "read"
    /\ fr_in = <<>>
    /\ fr_w' = [fr_w EXCEPT !.at = "close"]
    /\ UNCHANGED <<serverVars, fr_stream, fr_in, fr_split>>

\* A read returns any number of the bytes that have arrived.
ChunkNext ==
    \/ \E n \in 1 .. (STRIDE * MaxPieces) : FramerRead(n)
    \/ FramerEOF

ChunkSpec == ChunkInit /\ [][ChunkNext]_vars

\* ------------------------------------------------------------------ claims

\* Keys of the index whose flag is False.
SeenOnce == {k \in DOMAIN bst : ~bst[k]}

\* The numbers applied so far, and how often number k was applied.
AppliedNumbers == {applied[i][2] : i \in 1 .. Len(applied)}
TimesApplied(k) == Cardinality({i \in 1 .. Len(applied) : applied[i][2] = k})

\* Sum of column c of the printed lines.
RECURSIVE SumPrinted(_, _)
SumPrinted(lines, c) ==
    IF lines = <<>> THEN 0 ELSE Head(lines)[c] + SumPrinted(Tail(lines), c)

\* At least one report has run to its end (line 86) and none is under way.
ReportComplete == report_event

\* C1: in every reachable state the number of admitted live connections,
\* connections_count and the size of the connection table alike, is at most
\* max_connections.
C1_AdmittedWithinCap ==
    /\ connections_count <= MaxConnections
    /\ Cardinality(connections) <= MaxConnections

\* The cap is reached and a further arrival has been turned away.
C1_Witness ==
    /\ connections_count = MaxConnections
    /\ Cardinality(connections) = MaxConnections
    /\ \E s \in Sockets : sock[s] = "rejected"

\* C2: a connection that arrives while connections_count equals max_connections
\* is closed without being registered, without a worker and without a byte
\* read; connections_count, the table, the index, the counters and the log
\* buffer are unchanged and every admitted connection stays registered and open.
C2_RejectionChangesNothing ==
    [][\A s \in Sockets :
          (Arrive(s) /\ connections_count = MaxConnections) =>
              /\ sock'[s] = "rejected"
              /\ s \notin connections'
              /\ pc'[s] = "none"
              /\ wire' = wire
              /\ UNCHANGED <<connections, connections_count, bst,
                             current_report, logfile_buffer>>
              /\ \A x \in connections : sock'[x] = sock[x]]_vars

\* A socket was turned away while every admitted connection is still open.
C2_Witness ==
    /\ \E s \in Sockets : sock[s] = "rejected" /\ pc[s] = "none"
    /\ Cardinality(connections) = MaxConnections
    /\ \A x \in connections : sock[x] = "open"

\* C3: whenever no record application is in progress (in this model a record is
\* applied within one step, so in every state), cumulativeUnique
\* (current_report[2] of the code) is the number of keys whose flag is False.
C3_TotalIsSeenOnce == current_report[3] = Cardinality(SeenOnce)

\* After reports, one key seen once and another one repeated.
C3_Witness ==
    /\ Len(stdout) >= 2
    /\ current_report[3] = 1
    /\ \E k \in DOMAIN bst : bst[k]

\* C4: over all periods (the printed lines and the current counters) the new
\* unique counts add up to the number of distinct integers applied and the
\* duplicate counts to the number of applications minus that; an integer sent
\* N times adds 1 and N - 1.
C4_PeriodSums ==
    /\ SumPrinted(stdout, 1) + current_report[1] = Cardinality(AppliedNumbers)
    /\ SumPrinted(stdout, 2) + current_report[2]
           = Len(applied) - Cardinality(AppliedNumbers)
    /\ \A k \in AppliedNumbers :
           TimesApplied(k) = Len(applied) =>
               /\ SumPrinted(stdout, 1) + current_report[1] = 1
               /\ SumPrinted(stdout, 2) + current_report[2] = TimesApplied(k) - 1

\* One integer applied three times, its repeats in two different periods.
C4_Witness ==
    /\ \E k \in AppliedNumbers : TimesApplied(k) = 3
    /\ \E i \in 1 .. Len(stdout) : stdout[i][2] >= 1
    /\ current_report[2] >= 1

\* The lines of a file: the byte runs between LF bytes.
RECURSIVE SplitLines(_)
SplitLines(file) ==
    IF file = <<>> THEN <<>>
    ELSE IF \E i \in 1 .. Len(file) : file[i] = LF
         THEN LET i == CHOOSE j \in 1 .. Len(file) :
                           /\ file[j] = LF
                           /\ \A h \in 1 .. (j - 1) : file[h] # LF
              IN <<SubSeq(file, 1, i - 1)>>
                     \o SplitLines(SubSeq(file, i + 1, Len(file)))
         ELSE <<file>>

\* The 9-digit zero-padded text of k.
Digits9(k) == SubSeq(EncodeNumber(k), 1, 9)

\* Where k was first applied, and by which connection.
FirstApplied(k) ==
    CHOOSE i \in 1 .. Len(applied) :
        /\ applied[i][2] = k
        /\ \A h \in 1 .. (i - 1) : applied[h][2] # k

\* C5: after any report completes, also after several reports that each
\* flushed records, the log file holds exactly one LF-separated line per
\* distinct integer ingested, each the 9-digit record, those of one connection
\* in first-occurrence order.
C5_LogOneLinePerDistinct ==
    (ReportComplete /\ logfile_buffer = <<>>) =>
        LET lines == SplitLines(logfile)
        IN /\ Len(lines) = Cardinality(AppliedNumbers)
           /\ \A k \in AppliedNumbers :
                  \E i \in 1 .. Len(lines) : lines[i] = Digits9(k)
           /\ \A k1, k2 \in AppliedNumbers :
                  \A i1, i2 \in 1 .. Len(lines) :
                      ( /\ applied[FirstApplied(k1)][1]
                              = applied[FirstApplied(k2)][1]
                        /\ FirstApplied(k1) < FirstApplied(k2)
                        /\ lines[i1] = Digits9(k1)
                        /\ lines[i2] = Digits9(k2) ) => i1 < i2

\* Printed line i is the report of scenario 1: the first three applications are
\* 1, 1, 2 by one connection, all of them after line i - 1 and before line i.
C6_ScenarioLine(i) ==
    /\ i \in 2 .. Len(stdout)
    /\ printed_at[i - 1] = 0
    /\ printed_at[i] = 3
    /\ \E s \in Sockets : SubSeq(applied, 1, 3) = <<<<s, 1>>, <<s, 1>>, <<s, 2>>>>

C6_LogOfScenario(i) ==
    (Len(stdout) = i /\ ReportComplete) =>
        SplitLines(logfile) = <<Digits9(1), Digits9(2)>>

\* C6 as stated: the records 000000001, 000000001, 000000002 from one connection
\* on a fresh server and then one report print U = 2, D = 1, T = 2, and the log
\* holds 000000001 and 000000002.
C6_ScenarioAsStated ==
    \A i \in 1 .. Len(stdout) :
        C6_ScenarioLine(i) =>
            /\ stdout[i] = <<2, 1, 2>>
            /\ C6_LogOfScenario(i)

\* C6 amended: the report prints U = 2, D = 1 and T = 1 (000000001 was seen twice
\* and no longer counts), and the log holds 000000001 and 000000002.
C6_ScenarioTotalIsOne ==
    \A i \in 1 .. Len(stdout) :
        C6_ScenarioLine(i) =>
            /\ stdout[i] = <<2, 1, 1>>
            /\ C6_LogOfScenario(i)

\* The scenario's report has been printed and its flush is complete.
C6_Witness ==
    \E i \in 1 .. Len(stdout) :
        C6_ScenarioLine(i) /\ Len(stdout) = i /\ ReportComplete

\* The record grammar: nine ASCII digits and LF; and the value of a record.
GrammarRecord(stride) ==
    /\ \A i \in 1 .. 9 : stride[i] \in 48 .. 57
    /\ stride[10] = 10
RECURSIVE GrammarValue(_, _)
GrammarValue(stride, i) ==
    IF i = 0 THEN 0
    ELSE (stride[i] - 48) * Pow10(9 - i) + GrammarValue(stride, i - 1)

\* C7: on a complete 10-byte stride, however it is split over reads, the framer
\* delivers the value iff the stride is nine digits and LF (the connection stays
\* open), yields terminate iff it is terminate\n, and otherwise yields close
\* with the index, the counters and the log buffer untouched; nothing is
\* delivered before the stride is complete.
C7_FramerFollowsGrammar ==
    IF fr_in # <<>>
    THEN /\ fr_w.at = "read"
         /\ fr_w.shared = EmptyShared
         /\ fr_w.remaining_buf \o fr_in = fr_stream
    ELSE IF Len(fr_stream) # STRIDE THEN fr_w = FreshWorker
    ELSE IF GrammarRecord(fr_stream)
    THEN /\ fr_w.at = "read"
         /\ fr_w.remaining_buf = <<>>
         /\ fr_w.shared.applied = <<<<1, GrammarValue(fr_stream, 9)>>>>
         /\ DOMAIN fr_w.shared.bst = {GrammarValue(fr_stream, 9)}
         /\ fr_w.shared.current_report = <<1, 0, 1>>
         /\ fr_w.shared.logfile_buffer = <<SubSeq(fr_stream, 1, 9)>>
    ELSE /\ fr_w.at = (IF fr_stream = TERMINATE THEN "terminate" ELSE "close")
         /\ fr_w.shared = EmptyShared

\* The whole of 999999999\n has been read and the value delivered.
C7_Witness ==
    /\ fr_stream = EncodeNumber(999999999)
    /\ fr_in = <<>>
    /\ fr_w.at = "read"
    /\ fr_w.shared.applied = <<<<1, 999999999>>>>

\* C8 as stated: a connection that sent exactly the 9 bytes 12345678\n is closed
\* by the server once it has read them, and none of its bytes is applied.
C8_ShortFrameClosed ==
    \A s \in Sockets :
        (sent[s] = SHORT9 /\ wire[s] = <<>> /\ peer[s] = "open") =>
            /\ pc[s] \in {"close", "done"}
            /\ \A i \in 1 .. Len(applied) : applied[i][1] # s

\* C8 amended: the server does not close a connection that sent exactly the 9
\* bytes 12345678\n: it keeps them as the carry and waits for more, reaches the
\* close verdict only when the peer has closed or the server itself closed the
\* socket in a shutdown, and applies none of its bytes.
C8_ShortFrameKept ==
    \A s \in Sockets :
        sent[s] = SHORT9 =>
            /\ \A i \in 1 .. Len(applied) : applied[i][1] # s
            /\ (wire[s] = <<>> /\ pc[s] = "read") => remaining_buf[s] = SHORT9
            /\ pc[s] = "close" => (peer[s] = "closed" \/ sock[s] = "closed")
            /\ pc[s] # "terminate"

\* The 9 bytes have been read, reports have gone by, the connection is open.
C8_Witness ==
    \E s \in connections :
        /\ sent[s] = SHORT9
        /\ wire[s] = <<>>
        /\ pc[s] = "read"
        /\ sock[s] = "open"
        /\ peer[s] = "open"
        /\ Len(stdout) >= 2

\* C9: once a connection's terminate\n has been handled, the shutdown has run to
\* its end: no socket is open, the table is empty, the timer is cancelled, the
\* listener is closed and the loop is stopped (so nothing is admitted after).
C9_TerminateShutsDown ==
    (\E s \in Sockets : pc[s] = "terminated") =>
        /\ \A x \in Sockets : sock[x] # "open"
        /\ connections = {}
        /\ timer = "cancelled"
        /\ server = "closed"
        /\ loop = "stopped"

\* C10: the close of a connection after a framing error, a zero-byte read or a
\* reset removes its entry only, decrements connections_count by one and
\* leaves the other sockets, the index, the counters and the log buffer alone.
C10_CloseRemovesOnlyItself ==
    [][\A s \in Sockets :
          HandlerClose(s) =>
              /\ connections' = connections \ {s}
              /\ connections_count' = connections_count - 1
              /\ \A x \in Sockets \ {s} : sock'[x] = sock[x]
              /\ UNCHANGED <<bst, current_report, logfile_buffer>>]_vars

\* a is the beginning of b.
IsPrefix(a, b) == Len(a) <= Len(b) /\ a = SubSeq(b, 1, Len(a))

\* The worker after the whole stream arrived in a single read.
WholeStream == ForLoop(1, fr_stream, 0, EmptyShared, TRUE)

\* C11: however a byte stream is split into non-empty reads (shorter than a
\* stride, longer, or cutting strides), the integers delivered so far begin the
\* sequence delivered when the whole stream arrives in one read; once the stream
\* is read, the worker is where the single read leaves it (same integers, same
\* carry); and the final verdict with what was delivered is the same.
C11_ChunkingInvariant ==
    /\ IsPrefix(fr_w.shared.applied, WholeStream.shared.applied)
    /\ (fr_in = <<>> /\ fr_w.at = "read") => fr_w = WholeStream
    /\ fr_w.at \in {"close", "terminate"} =>
           /\ fr_w.shared = WholeStream.shared
           /\ fr_w.at = (IF WholeStream.at = "read" THEN "close"
                         ELSE WholeStream.at)

\* Three records have been delivered though a read ended inside a stride, and
\* the peer's close has then ended the connection.
C11_Witness ==
    /\ fr_stream = EncodeNumber(1) \o EncodeNumber(2) \o EncodeNumber(1)
    /\ fr_split
    /\ fr_w.at = "close"
    /\ fr_w.shared.applied = <<<<1, 1>>, <<1, 2>>, <<1, 1>>>>
    /\ fr_w.shared.current_report = <<2, 1, 1>>

\* Two different connections have each sent the record of k once, nothing else
\* has been sent, and both records have been applied.
BothSentOnce(k) ==
    /\ \E s1, s2 \in Sockets :
           /\ s1 # s2
           /\ sent[s1] = EncodeNumber(k)
           /\ sent[s2] = EncodeNumber(k)
           /\ {applied[i][1] : i \in 1 .. Len(applied)} = {s1, s2}
    /\ Len(applied) = 2

\* C12: whatever the interleaving of two connections that each send the same
\* unseen integer once (reads, lock, gate and reports in any order), once both
\* are applied the new unique counts of all periods add up to 1, the duplicate
\* counts add up to 1, the key is in the log buffer or the log file exactly
\* once, and its flag is True.
C12_SameIntegerTwice ==
    \A k \in {1, 2} :
        BothSentOnce(k) =>
            /\ SumPrinted(stdout, 1) + current_report[1] = 1
            /\ SumPrinted(stdout, 2) + current_report[2] = 1
            /\ \/ logfile_buffer = <<Digits9(k)>> /\ logfile = <<>>
               \/ logfile_buffer = <<>> /\ logfile = Digits9(k)
            /\ DOMAIN bst = {k}
            /\ bst[k]

\* Both records are applied, with a report between the two applications.
C12_Witness ==
    /\ BothSentOnce(2)
    /\ \E i \in 1 .. Len(printed_at) : printed_at[i] = 1
    /\ current_report = <<0, 1, 0>>

\* Application i is the first of its integer.
IsFirst(i) == \A h \in 1 .. (i - 1) : applied[h][2] # applied[i][2]

\* The number of applications made before printed line i began, and before the
\* line preceding it.
PeriodEnd(i) == printed_at[i]
PeriodStart(i) == IF i = 1 THEN 0 ELSE printed_at[i - 1]

\* Among applications lo+1 .. hi: the first sightings, the repeats.
NewIn(lo, hi) == Cardinality({i \in (lo + 1) .. hi : IsFirst(i)})
DupIn(lo, hi) == Cardinality({i \in (lo + 1) .. hi : ~IsFirst(i)})

\* The integers applied exactly once among applications 1 .. hi.
OnceUpTo(hi) ==
    Cardinality({k \in AppliedNumbers :
        Cardinality({i \in 1 .. hi : applied[i][2] = k}) = 1})

\* The records first seen among applications lo+1 .. hi, in that order.
RECURSIVE FirstSeenIn(_, _)
FirstSeenIn(lo, hi) ==
    IF hi <= lo THEN <<>>
    ELSE IF IsFirst(hi)
         THEN Append(FirstSeenIn(lo, hi - 1), Digits9(applied[hi][2]))
         ELSE FirstSeenIn(lo, hi - 1)

\* The number of reports that have run to line 86.
CompletedReports ==
    IF report_event THEN Len(stdout)
    ELSE IF stdout = <<>> THEN 0 ELSE Len(stdout) - 1

\* The file after the flushes of reports 1 .. n, each the join of the records
\* first seen in its period.
RECURSIVE ExpectedLog(_)
ExpectedLog(n) ==
    IF n = 0 THEN <<>>
    ELSE ExpectedLog(n - 1)
             \o Join(FirstSeenIn(PeriodStart(n), PeriodEnd(n)))

\* C13: no record application straddles a report.  While the gate is closed
\* (from report_event.clear to report_event.set, the wait for the log write
\* included) no step changes the index, the counters or the applications, and
\* the log buffer changes only by the reporter emptying it; every printed line
\* holds the first sightings and repeats applied since the line before it and
\* the integers seen exactly once among all applications made before it began;
\* and each flush wrote exactly the records first seen in its period.
C13_NoStraddle ==
    /\ [](\A i \in 1 .. Len(stdout) :
              stdout[i] = <<NewIn(PeriodStart(i), PeriodEnd(i)),
                            DupIn(PeriodStart(i), PeriodEnd(i)),
                            OnceUpTo(PeriodEnd(i))>>)
    /\ [](logfile = ExpectedLog(CompletedReports))
    /\ []((~report_event /\ stdout # <<>>) =>
              /\ Len(applied) = PeriodEnd(Len(stdout))
              /\ logfile_buffer
                     = FirstSeenIn(PeriodStart(Len(stdout)), Len(applied)))
    /\ [](report_event =>
              logfile_buffer = FirstSeenIn(PeriodEnd(Len(stdout)), Len(applied)))
    /\ [][~report_event =>
              /\ UNCHANGED <<bst, current_report, applied>>
              /\ \/ logfile_buffer' = logfile_buffer
                 \/ report_event' /\ logfile_buffer' = <<>>]_vars

\* A periodic report is waiting for its log write: it has printed a period with
\* both a first sighting and a repeat, the records to flush are still buffered,
\* and a worker holds a record in front of the closed gate.
C13_Witness ==
    /\ timer = "report"
    /\ ~report_event
    /\ stdout[Len(stdout)][1] >= 1
    /\ stdout[Len(stdout)][2] >= 1
    /\ logfile_buffer # <<>>
    /\ \E s \in Sockets : pc[s] = "gate"

\* The workers between bst_lock.acquire() and bst_lock.release() in a state: a
\* worker that passes the gate applies and releases within its step, so they are
\* the workers waiting for the gate.
Holders == {s \in Sockets : pc[s] = "gate"}

\* The workers that applied a record in a step.
Appliers == {applied'[i][1] : i \in (Len(applied) + 1) .. Len(applied')}

\* C14: at most one worker is between acquiring bst_lock and releasing it, and
\* the lock is held exactly while there is one; the records applied in one step
\* are those of one worker, and after a step that applied records, on the
\* duplicate branch as on the new-unique branch, the lock is released and that
\* worker holds nothing.
C14_MutualExclusion ==
    /\ [](Cardinality(Holders) <= 1)
    /\ [](bst_lock <=> Holders # {})
    /\ [][Len(applied') > Len(applied) =>
              /\ Cardinality(Appliers) = 1
              /\ ~bst_lock'
              /\ \A s \in Appliers : pc'[s] # "gate"
              /\ \A s \in Holders : s \in Appliers]_vars

\* First sightings and repeats have been applied; one worker holds the lock in
\* front of the closed gate and another is queued on the lock.
C14_Witness ==
    /\ bst_lock
    /\ \E s, x \in Sockets : pc[s] = "gate" /\ pc[x] = "acquire"
    /\ \E i, j \in 1 .. Len(applied) : IsFirst(i) /\ ~IsFirst(j)

\* C15: until the initial report has completed and the timer task has been
\* created (self.timer is set at line 56, in the step that ends the initial
\* report), no connection has arrived at the handler, none is admitted, no
\* worker runs and no byte has been read.
C15_StartupOrdered ==
    timer = "none" =>
        /\ connections = {}
        /\ connections_count = 0
        /\ \A s \in Sockets :
               /\ sock[s] = "unused"
               /\ pc[s] = "none"
               /\ Len(wire[s]) = Len(sent[s])

\* C16: a periodic report that is under way (gate closed, waiting for the log
\* write) runs to its end, also when a shutdown cancels the timer meanwhile: the
\* gate is reopened, unless the write itself fails.
C16_ReportInProgressCompletes ==
    (timer = "report") ~> (report_event \/ timer = "failed")

\* A log write has failed: the report it belongs to never reopens the gate.
WriteFailed == run_pc = "failed" \/ timer = "failed"

\* The worker of s is queued on bst_lock or holds it in front of the gate.
Waiting(s) == pc[s] \in {"acquire", "gate"}

\* The number of records the worker of s has applied.
AppliedBy(s) == Cardinality({i \in 1 .. Len(applied) : applied[i][1] = s})

\* A report has cleared the gate and not yet set it again.
ReportUnderWay == ~report_event /\ run_pc # "start"

\* C20: the lock-then-gate protocol does not deadlock.  While the event loop
\* runs, every task that can run does, and no log write fails: no report stays
\* under way for ever, each reaches report_event.set; no worker stays queued on
\* the lock or in front of the gate for ever; and a worker's wait for a record
\* ends only by that record being applied, with the lock released after.
C20_NoDeadlock ==
    /\ []<>(~ReportUnderWay \/ WriteFailed \/ loop = "stopped")
    /\ \A s \in Sockets :
           []<>(~Waiting(s) \/ WriteFailed \/ loop = "stopped")
    /\ [][\A s \in Sockets :
              (Waiting(s) /\ (~Waiting(s)' \/ offset'[s] # offset[s])) =>
                  /\ AppliedBy(s)' > AppliedBy(s)
                  /\ ~bst_lock']_vars

\* A worker is queued on the lock, which only happens behind a worker holding
\* it in front of a closed gate; by now the report has ended, the gate is open,
\* the holder has applied its record and the lock is free.
C20_Witness ==
    /\ \E s, x \in Sockets :
           s # x /\ pc[x] = "acquire" /\ AppliedBy(s) >= 1
    /\ Len(stdout) >= 2
    /\ report_event
    /\ ~bst_lock

\* C17: a failure of the log write during a report, the initial one or a
\* periodic one, is fatal: the server shuts down (the event loop stops) instead
\* of running on with the gate closed.
C17_WriteFailureIsFatal == WriteFailed ~> (loop = "stopped")

\* C18: the step that begins a report zeroes the two period counters and keeps
\* the total; the step that completes it leaves the period counters zero, the
\* total as printed and the log buffer empty; neither changes the index or the
\* connection table; and the log buffer loses elements in no step other than
\* the completion of a report.
C18_ReportFrame ==
    /\ [][(RunStart \/ TimerFire) =>
              /\ current_report' = <<0, 0, current_report[3]>>
              /\ UNCHANGED <<bst, logfile_buffer, connections,
                             connections_count>>]_vars
    /\ [][(InitialReportDone \/ TimerReportDone) =>
              /\ current_report' = <<0, 0, stdout[Len(stdout)][3]>>
              /\ logfile_buffer' = <<>>
              /\ UNCHANGED <<current_report, bst, connections,
                             connections_count>>]_vars
    /\ [][Len(logfile_buffer') < Len(logfile_buffer) =>
              (InitialReportDone \/ TimerReportDone)]_vars

\* A periodic report has completed with a connection admitted: records were
\* flushed, the buffer is empty, the period counters are zero and the total is
\* not.
C18_Witness ==
    /\ timer = "sleep"
    /\ report_event
    /\ logfile # <<>>
    /\ logfile_buffer = <<>>
    /\ current_report[1] = 0
    /\ current_report[2] = 0
    /\ current_report[3] >= 1
    /\ \E i \in 1 .. Len(stdout) : stdout[i][2] >= 1
    /\ connections # {}

\* C19: in every state the keys of the index are the integers applied at least
\* once and a key's flag is False exactly if it was applied once; and in every
\* step, reports and connection closes included, every key stays and a flag
\* that is True stays True.
C19_IndexMonotonic ==
    /\ [](DOMAIN bst = AppliedNumbers)
    /\ [](\A k \in DOMAIN bst : ~bst[k] <=> TimesApplied(k) = 1)
    /\ [][\A k \in DOMAIN bst : k \in DOMAIN bst' /\ (bst[k] => bst'[k])]_vars

\* A key applied three times is flagged True, another key is flagged False, a
\* report has run since and a connection has been closed.
C19_Witness ==
    /\ \E k \in DOMAIN bst : bst[k] /\ TimesApplied(k) = 3
    /\ \E k \in DOMAIN bst : ~bst[k]
    /\ \E s \in Sockets : pc[s] = "done"
    /\ \E i \in 1 .. Len(printed_at) : printed_at[i] = Len(applied)
    /\ Len(applied) = 4

\* shutdown() has not been called.
NoShutdownYet == \A s \in Sockets : pc[s] # "terminated"

\* The connections admitted so far, and those of them whose handler has closed.
Admitted == {s \in Sockets : pc[s] # "none"}
Closed == {s \in Sockets : pc[s] = "done"}

\* C21: before any shutdown, connections_count is the size of the connection
\* table, which holds the admitted connections that have not been closed: the
\* count is the admissions minus the closes.  An admission adds one and the
\* entry, a close of a registered connection removes the entry and subtracts
\* one, a close of an id that is not in the table changes nothing, and an
\* arrival that finds a slot freed by a close is admitted.
C21_CountIsTableSize ==
    /\ [](NoShutdownYet =>
              /\ connections_count = Cardinality(connections)
              /\ connections = Admitted \ Closed
              /\ connections_count
                     = Cardinality(Admitted) - Cardinality(Closed))
    /\ [][\A s \in Sockets :
              (Arrive(s) /\ s \in connections') =>
                  /\ s \notin connections
                  /\ connections' = connections \cup {s}
                  /\ connections_count' = connections_count + 1]_vars
    /\ [][\A s \in Sockets :
              HandlerClose(s) =>
                  IF s \in connections
                  THEN /\ connections' = connections \ {s}
                       /\ connections_count' = connections_count - 1
                  ELSE UNCHANGED <<connections, connections_count>>]_vars
    /\ [][\A s \in Sockets :
              ( /\ Arrive(s)
                /\ NoShutdownYet
                /\ Cardinality(Admitted \ Closed) < MaxConnections ) =>
                  s \in connections']_vars

\* With the table full a connection was closed, and a later arrival has taken
\* its slot: the table is full again.
C21_Witness ==
    /\ NoShutdownYet
    /\ Closed # {}
    /\ \E s \in connections : \A x \in Closed : x < s
    /\ connections_count = MaxConnections
    /\ Cardinality(connections) = MaxConnections

====
